---- MODULE Spec2Model ----
(***************************************************************************)
(* Audio Insights (src/app.py): one Streamlit session.  Every script run   *)
(* executes main(); a run started with the process button validates the    *)
(* form and then drives transcrever_audio -> analisar_com_ia -> gerar_pdf  *)
(* -> enviar_email, writing st.session_state on the way.                   *)
(*                                                                         *)
(* Python strings are sequences of one-character strings.  None and a      *)
(* raised exception of an external service are two reserved values that    *)
(* are no text.  A PDF path is identified with the number of the run that  *)
(* rendered it (the path embeds the render-time timestamp).                *)
(***************************************************************************)
EXTENDS Integers, Sequences, FiniteSets, TLC

MaxLen == 2
MaxRuns == 2

Chars == {"a", " "}
Whitespace == {" "}
Texts == UNION {[1..n -> Chars] : n \in 0..MaxLen}

None == <<"None">>
Raise == <<"Raise">>
NoPath == 0

\* what the speech-to-text service answers: a text, or an exception
SttReplies == Texts \cup {Raise}
\* what the text-generation service answers: a content (None is allowed by
\* the API), or an exception
LlmReplies == Texts \cup {None, Raise}

Stages == <<"Transcribing", "Analyzing", "Rendering", "Dispatching">>

VARIABLES
    pc,            \* where main() is: "idle" (no script running) or a stage
    run,           \* number of script runs started with the process button
    form,          \* which inputs of the form are non-empty in the current run
    session,       \* st.session_state
    origin,        \* run that wrote each field of st.session_state
    local,         \* main()'s locals transcricao, analise, pdf_path
    calls,         \* external calls issued by the current run, per kind
    stages,        \* stages started by the current run, in order
    tmp_files,     \* temporary audio files on disk, by creating run
    resultados,    \* PDF files in resultados/, by creating run
    outbox,        \* e-mails accepted by the SMTP server
    errors,        \* st.error messages shown by the current script run
    successes,     \* st.success messages shown by the current script run
    exit,          \* how the last script run left main()
    resultsShown   \* whether the last script run rendered the results view

vars == <<pc, run, form, session, origin, local, calls, stages, tmp_files,
          resultados, outbox, errors, successes, exit, resultsShown>>

NoCalls == [stt |-> 0, llm |-> 0, pdf |-> 0, mail |-> 0, record |-> 0]
NoLocals == [transcricao |-> None, analise |-> None, pdf_path |-> NoPath]
Forms == [openai_key : BOOLEAN, audio_file : BOOLEAN, email_destino : BOOLEAN,
          email_remetente : BOOLEAN, senha_email : BOOLEAN]

\* Python's `not x` for x a str or None
FalsyNoneOnly(x) == x = None
Falsy(x) == x = None \/ Len(x) = 0

\* inicializar_sessao on the first script run of the session
inicializar_sessao ==
    [processado |-> FALSE, transcricao |-> <<>>, analise |-> <<>>, pdf_path |-> NoPath]

\* the validations of main(): the first failing one, or "ok"
validar_sem_senha(f) ==
    IF ~f.openai_key THEN "openai_key"
    ELSE IF ~f.audio_file THEN "audio_file"
    ELSE IF ~f.email_destino THEN "email_destino"
    ELSE IF ~f.email_remetente THEN "email_remetente"
    ELSE "ok"
validar(f) ==
    IF ~f.openai_key THEN "openai_key"
    ELSE IF ~f.audio_file THEN "audio_file"
    ELSE IF ~f.email_destino THEN "email_destino"
    ELSE IF ~f.email_remetente \/ ~f.senha_email THEN "email_remetente"
    ELSE "ok"

\* transcrever_audio: tmp_ok says whether the temporary file could be
\* written, reply is the service's answer.  The result carries the returned
\* value, whether the temporary file is left on disk, the number of
\* speech-to-text calls and the st.error messages.
transcrever_audio_retry(tmp_ok, reply) ==
    IF ~tmp_ok
    THEN [result |-> None, tmp_left |-> FALSE, api_calls |-> 0, errors |-> <<"transcricao">>]
    ELSE IF reply = Raise
    THEN [result |-> None, tmp_left |-> TRUE, api_calls |-> 2, errors |-> <<"transcricao">>]
    ELSE [result |-> reply, tmp_left |-> FALSE, api_calls |-> 1, errors |-> <<>>]
transcrever_audio(tmp_ok, reply) ==
    IF ~tmp_ok
    THEN [result |-> None, tmp_left |-> FALSE, api_calls |-> 0, errors |-> <<"transcricao">>]
    ELSE IF reply = Raise
    THEN [result |-> None, tmp_left |-> TRUE, api_calls |-> 1, errors |-> <<"transcricao">>]
    ELSE [result |-> reply, tmp_left |-> FALSE, api_calls |-> 1, errors |-> <<>>]

\* analisar_com_ia: always issues the chat-completion call
analisar_com_ia(transcricao, reply) ==
    IF reply = Raise
    THEN [result |-> None, api_calls |-> 1, errors |-> <<"analise">>]
    ELSE [result |-> reply, api_calls |-> 1, errors |-> <<>>]

\* enviar_email: smtp_ok says whether the SMTP session went through
enviar_email_otimista(smtp_ok) ==
    [result |-> TRUE, sent |-> smtp_ok, attempts |-> 1,
     errors |-> IF smtp_ok THEN <<>> ELSE <<"email">>]
enviar_email(smtp_ok) ==
    IF smtp_ok
    THEN [result |-> TRUE, sent |-> TRUE, attempts |-> 1, errors |-> <<>>]
    ELSE [result |-> FALSE, sent |-> FALSE, attempts |-> 1, errors |-> <<"email">>]

Init ==
    /\ pc = "idle"
    /\ run = 0
    /\ form = [openai_key |-> FALSE, audio_file |-> FALSE, email_destino |-> FALSE,
               email_remetente |-> FALSE, senha_email |-> FALSE]
    /\ session = inicializar_sessao
    /\ origin = [transcricao |-> 0, analise |-> 0, pdf_path |-> 0]
    /\ local = NoLocals
    /\ calls = NoCalls
    /\ stages = <<>>
    /\ tmp_files = {}
    /\ resultados = {}
    /\ outbox = {}
    /\ errors = <<>>
    /\ successes = {}
    /\ exit = "none"
    /\ resultsShown = FALSE

\* main() up to the first stage: the process button was pressed
Processar ==
    /\ pc = "idle"
    /\ run < MaxRuns
    /\ \E f \in Forms :
        /\ form' = f
        /\ run' = run + 1
        /\ local' = NoLocals
        /\ calls' = NoCalls
        /\ stages' = <<>>
        /\ successes' = {}
        /\ resultsShown' = FALSE
        /\ IF validar(f) = "ok"
           THEN /\ pc' = "Transcribing"
                /\ errors' = <<>>
                /\ exit' = "none"
           ELSE /\ pc' = "idle"
                /\ errors' = <<validar(f)>>
                /\ exit' = "rejected"
    /\ UNCHANGED <<session, origin, tmp_files, resultados, outbox>>

\* main(): the transcription block
Transcrever ==
    /\ pc = "Transcribing"
    /\ \E tmp_ok \in BOOLEAN, reply \in SttReplies :
        LET r == transcrever_audio(tmp_ok, reply) IN
        /\ stages' = Append(stages, "Transcribing")
        /\ calls' = [calls EXCEPT !.stt = @ + r.api_calls]
        /\ tmp_files' = IF r.tmp_left THEN tmp_files \cup {run} ELSE tmp_files
        /\ errors' = errors \o r.errors
        /\ local' = [local EXCEPT !.transcricao = r.result]
        /\ IF Falsy(r.result)
           THEN /\ pc' = "idle"
                /\ exit' = "transcribing_failed"
                /\ UNCHANGED <<session, origin, successes>>
           ELSE /\ pc' = "Analyzing"
                /\ session' = [session EXCEPT !.transcricao = r.result]
                /\ origin' = [origin EXCEPT !.transcricao = run]
                /\ successes' = successes \cup {"transcricao"}
                /\ UNCHANGED exit
    /\ UNCHANGED <<run, form, resultados, outbox, resultsShown>>

\* main(): the analysis block
Analisar ==
    /\ pc = "Analyzing"
    /\ \E reply \in LlmReplies :
        LET r == analisar_com_ia(local.transcricao, reply) IN
        /\ stages' = Append(stages, "Analyzing")
        /\ calls' = [calls EXCEPT !.llm = @ + r.api_calls]
        /\ errors' = errors \o r.errors
        /\ local' = [local EXCEPT !.analise = r.result]
        /\ IF Falsy(r.result)
           THEN /\ pc' = "idle"
                /\ exit' = "analyzing_failed"
                /\ UNCHANGED <<session, origin, successes>>
           ELSE /\ pc' = "Rendering"
                /\ session' = [session EXCEPT !.analise = r.result]
                /\ origin' = [origin EXCEPT !.analise = run]
                /\ successes' = successes \cup {"analise"}
                /\ UNCHANGED exit
    /\ UNCHANGED <<run, form, tmp_files, resultados, outbox, resultsShown>>

\* main(): the PDF block; gerar_pdf has no handler, an exception of
\* doc.build leaves main() uncaught
GerarPdf ==
    /\ pc = "Rendering"
    /\ \E built \in BOOLEAN :
        /\ stages' = Append(stages, "Rendering")
        /\ calls' = [calls EXCEPT !.pdf = @ + 1]
        /\ IF built
           THEN /\ pc' = "Dispatching"
                /\ resultados' = resultados \cup {run}
                /\ local' = [local EXCEPT !.pdf_path = run]
                /\ session' = [session EXCEPT !.pdf_path = run]
                /\ origin' = [origin EXCEPT !.pdf_path = run]
                /\ successes' = successes \cup {"pdf"}
                /\ UNCHANGED exit
           ELSE /\ pc' = "idle"
                /\ exit' = "uncaught"
                /\ UNCHANGED <<resultados, local, session, origin, successes>>
    /\ UNCHANGED <<run, form, tmp_files, outbox, errors, resultsShown>>

\* main(): the e-mail block, then the rest of the script (results view)
EnviarEmail ==
    /\ pc = "Dispatching"
    /\ \E smtp_ok \in BOOLEAN :
        LET r == enviar_email(smtp_ok) IN
        /\ stages' = Append(stages, "Dispatching")
        /\ calls' = [calls EXCEPT !.mail = @ + r.attempts]
        /\ outbox' = IF r.sent
                     THEN outbox \cup {[run |-> run, pdf |-> local.pdf_path]}
                     ELSE outbox
        /\ IF r.result
           THEN /\ successes' = successes \cup {"email"}
                /\ session' = [session EXCEPT !.processado = TRUE]
                /\ errors' = errors \o r.errors
                /\ exit' = "completed"
           ELSE /\ errors' = (errors \o r.errors) \o <<"email_main">>
                /\ exit' = "dispatch_failed"
                /\ UNCHANGED <<session, successes>>
        /\ resultsShown' = session'.processado
    /\ pc' = "idle"
    /\ UNCHANGED <<run, form, origin, local, tmp_files, resultados>>

\* a script run that was not started by the process button
Rerun ==
    /\ pc = "idle"
    /\ exit # "rerun"
    /\ errors' = <<>>
    /\ successes' = {}
    /\ exit' = "rerun"
    /\ resultsShown' = session.processado
    /\ UNCHANGED <<pc, run, form, session, origin, local, calls, stages,
                   tmp_files, resultados, outbox>>

Next ==
    \/ Processar
    \/ Transcrever
    \/ Analisar
    \/ GerarPdf
    \/ EnviarEmail
    \/ Rerun

Spec == Init /\ [][Next]_vars

(***************************************************************************)
(* analisar_com_ia called on its own, on any transcript                    *)
(***************************************************************************)
ChamarAnalisar ==
    /\ pc = "idle"
    /\ run < MaxRuns
    /\ \E t \in Texts, reply \in LlmReplies :
        LET r == analisar_com_ia(t, reply) IN
        /\ run' = run + 1
        /\ local' = [transcricao |-> t, analise |-> r.result, pdf_path |-> NoPath]
        /\ calls' = [NoCalls EXCEPT !.llm = r.api_calls]
        /\ errors' = r.errors
    /\ UNCHANGED <<pc, form, session, origin, stages, tmp_files, resultados,
                   outbox, successes, exit, resultsShown>>

NextAnalisar == ChamarAnalisar

SpecAnalisar == Init /\ [][NextAnalisar]_vars

(***************************************************************************)
(* Properties                                                              *)
(***************************************************************************)
IsPrefix(s, t) == Len(s) <= Len(t) /\ \A i \in 1..Len(s) : s[i] = t[i]
IsText(x) == x # None /\ x # Raise
NonEmptyText(x) == IsText(x) /\ Len(x) > 0
NonBlankText(x) == IsText(x) /\ \E i \in 1..Len(x) : x[i] \notin Whitespace
Delivered == {m.run : m \in outbox}
MissingCredential(f) == ~f.openai_key \/ ~f.email_remetente \/ ~f.senha_email

\* C1: the stages of a run start only in the order Transcribing, Analyzing,
\* Rendering, Dispatching; a stage is entered only after the one before it
\* returned a usable value; a run that failed at a stage started no later
\* stage: no later external call, no artifact, no e-mail, no usage record.
C1_StageOrder ==
    /\ IsPrefix(stages, Stages)
    /\ pc # "idle" => pc = Stages[Len(stages) + 1]
    /\ (pc = "Analyzing" \/ Len(stages) >= 2) => NonEmptyText(local.transcricao)
    /\ (pc = "Rendering" \/ Len(stages) >= 3) => NonEmptyText(local.analise)
    /\ (pc = "Dispatching" \/ Len(stages) >= 4) =>
           local.pdf_path = run /\ run \in resultados
    /\ exit = "transcribing_failed" =>
           /\ pc = "idle" /\ stages = <<"Transcribing">>
           /\ calls.llm = 0 /\ calls.pdf = 0 /\ calls.mail = 0 /\ calls.record = 0
           /\ run \notin resultados /\ run \notin Delivered
    /\ exit = "analyzing_failed" =>
           /\ pc = "idle" /\ stages = <<"Transcribing", "Analyzing">>
           /\ calls.pdf = 0 /\ calls.mail = 0 /\ calls.record = 0
           /\ run \notin resultados /\ run \notin Delivered
    /\ exit = "uncaught" =>
           /\ pc = "idle" /\ stages = <<"Transcribing", "Analyzing", "Rendering">>
           /\ calls.mail = 0 /\ calls.record = 0
           /\ run \notin Delivered
    /\ exit = "dispatch_failed" =>
           /\ pc = "idle" /\ stages = Stages
           /\ calls.record = 0

C1_Witness ==
    /\ exit = "analyzing_failed"
    /\ stages = <<"Transcribing", "Analyzing">>
    /\ run > 1
    /\ calls.pdf = 0

\* C2: when a run has ended, no temporary audio file is left on disk.
C2_TmpReleased == pc = "idle" => tmp_files = {}

\* C3: when the PDF was rendered and the e-mail step sends nothing, the run
\* ends as a delivery failure: the PDF is still on disk, the delivery error
\* is shown and the delivery success is not, processado keeps the value it
\* had before the step, and no usage record is written.
C3_DeliveryFailure ==
    [][(pc = "Dispatching" /\ outbox' = outbox) =>
          /\ exit' = "dispatch_failed"
          /\ pc' = "idle"
          /\ local.pdf_path # NoPath
          /\ local.pdf_path \in resultados'
          /\ "email_main" \in {errors'[i] : i \in DOMAIN errors'}
          /\ "email" \notin successes'
          /\ session'.processado = session.processado
          /\ resultsShown' = session.processado
          /\ calls'.record = 0]_vars

C3_Witness ==
    /\ exit = "dispatch_failed"
    /\ local.pdf_path \in resultados
    /\ run \notin Delivered
    /\ ~session.processado

\* C4: the Analyzing stage is entered only with a transcript that holds a
\* character that is not whitespace.
C4_NoBlankTranscript ==
    (pc = "Analyzing" \/ Len(stages) >= 2) => NonBlankText(local.transcricao)

\* C5: a run that completed appended exactly one usage record.
C5_OneUsageRecord == exit = "completed" => calls.record = 1

\* C6: no external call is issued twice in a run; a completed run made one
\* speech-to-text call, one text-generation call, one PDF, and sent one
\* e-mail, carrying the PDF of this run; a run that failed at the
\* text-generation or mail call made that call once, and a run whose
\* speech-to-text call raised made it once.
C6_SingleAttempt ==
    /\ \A k \in {"stt", "llm", "pdf", "mail"} : calls[k] <= 1
    /\ exit = "completed" =>
           /\ calls.stt = 1 /\ calls.llm = 1 /\ calls.pdf = 1 /\ calls.mail = 1
           /\ local.pdf_path = run /\ run \in resultados
           /\ {m \in outbox : m.run = run} = {[run |-> run, pdf |-> run]}
    /\ (exit = "transcribing_failed" /\ run \in tmp_files) => calls.stt = 1
    /\ exit = "analyzing_failed" => calls.llm = 1
    /\ exit = "dispatch_failed" => calls.mail = 1

C6_Witness ==
    /\ exit = "completed"
    /\ calls.mail = 1
    /\ [run |-> run, pdf |-> local.pdf_path] \in outbox

\* C7: a run that ended in a stage failure did not leave main() by an
\* uncaught exception and showed exactly one error message.
C7_FailureSurfacedOnce ==
    (pc = "idle" /\ exit \in {"transcribing_failed", "analyzing_failed",
                              "uncaught", "dispatch_failed"}) =>
        exit # "uncaught" /\ Len(errors) = 1

\* C8: analisar_com_ia called with the empty transcript issues no
\* text-generation call and returns no analysis.
C8_EmptyInputNoCall ==
    (run > 0 /\ local.transcricao = <<>>) => calls.llm = 0 /\ local.analise = None

\* C9: a run requested with the API key, the sender address or the sender
\* password missing is rejected on the spot: no stage is entered, no
\* temporary file, artifact or e-mail appears, no external call is made and
\* the session state is what it was.
C9_RejectedBeforeAnyStage ==
    [][(run' = run + 1 /\ MissingCredential(form')) =>
          /\ pc' = "idle"
          /\ exit' = "rejected"
          /\ Len(errors') = 1
          /\ stages' = <<>>
          /\ calls' = NoCalls
          /\ tmp_files' = tmp_files
          /\ resultados' = resultados
          /\ outbox' = outbox
          /\ session' = session]_vars

C9_Witness ==
    /\ exit = "rejected"
    /\ form.openai_key /\ form.audio_file /\ form.email_destino /\ form.email_remetente
    /\ ~form.senha_email
    /\ session.processado

\* C10: when the results view is shown, the stored transcript, analysis and
\* PDF path are non-empty and were all written by one run, whose e-mail was
\* delivered.
C10_ResultsFromOneDeliveredRun ==
    (pc = "idle" /\ resultsShown) =>
        /\ NonEmptyText(session.transcricao)
        /\ NonEmptyText(session.analise)
        /\ session.pdf_path # NoPath
        /\ origin.transcricao = origin.pdf_path
        /\ origin.analise = origin.pdf_path
        /\ origin.pdf_path \in Delivered
====
